---- MODULE Spec2Model ----
(***************************************************************************)
(* Model of the two monitoring scripts of sysmonpy:                        *)
(*   clisysmtr.py  main / display_system_info and its seven samplers       *)
(*   sysmon.py     monitor_system / log_system_usage / get_system_usage    *)
(*                                                                         *)
(* Each script is a sequential program; pc is its position.  The operating *)
(* system is the environment: every psutil / socket / file call either     *)
(* returns a value or raises, and a KeyboardInterrupt may arrive at any    *)
(* position.  Numeric readings are kept as 0 (a zero reading) or 1 (a      *)
(* positive reading): the code only branches on None-ness and truthiness.  *)
(* Totals, the clock and the RAM in use are positive; a disk with nothing  *)
(* in use is at 0 percent.  Strings read from the system are kept as 1 (a  *)
(* non-empty string).                                                      *)
(***************************************************************************)
EXTENDS Integers, Sequences, FiniteSets, TLC

VARIABLES prog, args, pc, snap, usage, calls, failed, out, logfile, iter,
          sleeps, exc, exit_code

vars == <<prog, args, pc, snap, usage, calls, failed, out, logfile, iter,
          sleeps, exc, exit_code>>

(* ---------------- bounds ---------------- *)

\* iterations of the while True loops that are explored
MaxIter == 2

(* ---------------- values ---------------- *)

\* Python's None
None == -1

\* no exception is in flight or has ended the run
NoExc == "none"

\* exit status of a process that an uncaught KeyboardInterrupt ends
SigIntStatus == 130


\* a local that has not been assigned yet
Unset == -2

\* readings a sampler can return on success
Readings == {0, 1}

\* values of the cumulative network counters
Counters == {0, 1}

\* non-empty strings (an address, a model name, a device name)
Strings == {1}

\* --interval is type=int: negative values parse
Intervals == {-1, 0, 1}

Categories == {"ip", "cpu_name", "cpu_usage", "cpu_clock", "ram", "disk", "network"}

\* the categories get_system_usage queries
UsageCategories == {"cpu_usage", "ram", "network", "disk"}

(* ---------------- console lines ---------------- *)

\* clisysmtr.py sampler notices
ErrLocalIp == "error getting local ip"
ErrLocalIpOther == "an unexpected error occurred (get_local_ip)"
ErrCpuUsage == "error getting cpu usage"
ErrCpuClock == "error getting cpu clock speed"
ErrCpuName == "Error getting CPU name"
ErrRam == "error getting ram usage"
ErrDisk == "error getting disk usage"
ErrNetwork == "error getting network activity"

\* clisysmtr.py report lines: value line and failure line of each category
ValueLine == [ip |-> "local ip address: {}",
              cpu_name |-> "cpu name: {}",
              cpu_usage |-> "cpu usage: {}%",
              cpu_clock |-> "cpu clock speed: {} mhz",
              ram |-> "ram: {} gb / {} gb ({}%)",
              disk |-> "disk drive ({}): {} gb / {} gb ({}%)",
              network |-> "network activity: sent: {} bytes/s, received: {} bytes/s"]

FailureLine == [ip |-> "failed to retrieve local ip address.",
                cpu_name |-> "failed to retrieve cpu name.",
                cpu_usage |-> "failed to retrieve cpu usage.",
                cpu_clock |-> "cpu clock speed: not supported or failed to retrieve.",
                ram |-> "failed to retrieve ram usage.",
                disk |-> "failed to retrieve disk usage.",
                network |-> "failed to retrieve network activity."]

\* the order in which display_system_info prints the categories
RenderOrder == <<"ip", "cpu_name", "cpu_usage", "cpu_clock", "ram", "disk", "network">>

ErrWriteLog == "error writing to log file"
LoggedTo == "logged to {}"
StoppedByUser == "monitoring stopped by user."
ErrUnexpected == "an unexpected error occurred"
\* what the interpreter prints for an exception nothing catches
Traceback == "Traceback (most recent call last)"

\* sysmon.py lines
ErrSystemUsage == "Error getting system usage"
ResourceLogged == "system resource logged at"
ErrCantWrite == "can't write to log file"
UnableToRetrieve == "unable to retrieve system info. aborted."
MonStoppedByUser == "Monitoring stopped by user."
MonErrOccurred == "An error occurred during monitoring"

(* ---------------- helpers ---------------- *)

\* Python truthiness of a reading or string: None, 0, 0.0 and "" are false
Truthy(v) == v # None /\ v # 0

UnsetSnap == [ip_address |-> Unset, cpu_usage |-> Unset, cpu_clock |-> Unset,
              cpu_name |-> Unset, ram |-> <<Unset, Unset, Unset>>,
              disk |-> <<Unset, Unset, Unset, Unset>>, net |-> <<Unset, Unset>>]

UsageFields == {"cpu_usage", "mem_usage", "ram_total", "ram_available",
                "bytes_sent", "bytes_recv", "disk_total", "disk_used", "disk_free"}

UnsetUsage == [f \in UsageFields |-> Unset]

\* return None, None, None, None, None, None, None, None, None
NoneUsage == [f \in UsageFields |-> None]

NoCalls == [c \in Categories |-> 0]

Called(c) == calls' = [calls EXCEPT ![c] = @ + 1]

\* the values of category c in the snapshot of display_system_info
Fields(c) ==
    CASE c = "ip" -> <<snap.ip_address>>
      [] c = "cpu_name" -> <<snap.cpu_name>>
      [] c = "cpu_usage" -> <<snap.cpu_usage>>
      [] c = "cpu_clock" -> <<snap.cpu_clock>>
      [] c = "ram" -> snap.ram
      [] c = "disk" -> snap.disk
      [] c = "network" -> snap.net

\* the values of category c in the tuple of get_system_usage
UsageOf(c) ==
    CASE c = "cpu_usage" -> <<usage.cpu_usage>>
      [] c = "ram" -> <<usage.mem_usage, usage.ram_total, usage.ram_available>>
      [] c = "network" -> <<usage.bytes_sent, usage.bytes_recv>>
      [] c = "disk" -> <<usage.disk_total, usage.disk_used, usage.disk_free>>

(* ---------------- initial state ---------------- *)

\* a log file may hold entries of earlier runs; their timestamp is 0
OldEntry == [head |-> "timestamp", ts |-> 0]

Init ==
    /\ prog \in {"clisysmtr", "sysmon"}
    /\ args \in [log : BOOLEAN, no_loop : BOOLEAN, interval : Intervals]
    /\ prog = "sysmon" => args.log /\ ~args.no_loop
    /\ pc = IF prog = "clisysmtr" THEN "main" ELSE "monitor_system"
    /\ snap = UnsetSnap
    /\ usage = UnsetUsage
    /\ calls = NoCalls
    /\ failed = {}
    /\ out = <<>>
    /\ logfile \in (IF args.log THEN {<<>>, <<OldEntry>>} ELSE {<<>>})
    /\ iter = 0
    /\ sleeps = 0
    /\ exc = NoExc
    /\ exit_code = None

(* ================= clisysmtr.py ================= *)

\* an exception e leaves the body of main with the console at o: inside the
\* try of the continuous loop it is handled, in one-shot mode nothing catches
\* it and the interpreter ends the process; the frames are gone either way
Propagate(e, o) ==
    /\ exc' = e
    /\ snap' = UnsetSnap
    /\ pc' = "Terminated"
    /\ IF args.no_loop
       THEN /\ out' = Append(o, Traceback)
            /\ exit_code' \in (IF e = "KeyboardInterrupt" THEN {1, SigIntStatus} ELSE {1})
       ELSE IF e = "KeyboardInterrupt"
            THEN out' = Append(o, StoppedByUser) /\ exit_code' = 0
            ELSE out' = Append(o, ErrUnexpected) /\ exit_code' = 1

\* display_system_info(args) is called: a fresh frame
CallDisplay ==
    /\ iter' = iter + 1
    /\ snap' = UnsetSnap
    /\ calls' = NoCalls
    /\ failed' = {}
    /\ out' = <<>>
    /\ pc' = "get_local_ip"

\* display_system_info returns to main
Return ==
    /\ snap' = UnsetSnap
    /\ exc' = exc
    /\ IF args.no_loop
       THEN pc' = "Terminated" /\ exit_code' = 0
       ELSE pc' = "sleep" /\ exit_code' = exit_code

main ==
    /\ pc = "main"
    /\ IF args.no_loop
       THEN CallDisplay
       ELSE pc' = "while" /\ UNCHANGED <<iter, snap, calls, failed, out>>
    /\ UNCHANGED <<prog, args, usage, logfile, sleeps, exc, exit_code>>

while_body ==
    /\ pc = "while"
    /\ iter < MaxIter
    /\ CallDisplay
    /\ UNCHANGED <<prog, args, usage, logfile, sleeps, exc, exit_code>>

\* a sampler of category c returned value v into snapshot s, printing the
\* notices of o, and control moves to nxt
Sampled(c, s, isFailure, notices, nxt) ==
    /\ Called(c)
    /\ snap' = s
    /\ failed' = IF isFailure THEN failed \cup {c} ELSE failed
    /\ out' = out \o notices
    /\ pc' = nxt
    /\ UNCHANGED <<prog, args, usage, logfile, iter, sleeps, exc, exit_code>>

get_local_ip ==
    /\ pc = "get_local_ip"
    /\ \/ \E v \in Strings :
            Sampled("ip", [snap EXCEPT !.ip_address = v], FALSE, <<>>, "get_cpu_usage")
       \/ \E n \in {ErrLocalIp, ErrLocalIpOther} :
            Sampled("ip", [snap EXCEPT !.ip_address = None], TRUE, <<n>>, "get_cpu_usage")

get_cpu_usage ==
    /\ pc = "get_cpu_usage"
    /\ \/ \E v \in Readings :
            Sampled("cpu_usage", [snap EXCEPT !.cpu_usage = v], FALSE, <<>>, "get_cpu_clock")
       \/ Sampled("cpu_usage", [snap EXCEPT !.cpu_usage = None], TRUE, <<ErrCpuUsage>>,
                  "get_cpu_clock")

get_cpu_clock ==
    /\ pc = "get_cpu_clock"
    /\ \/ \E v \in Readings \ {0} :
            Sampled("cpu_clock", [snap EXCEPT !.cpu_clock = v], FALSE, <<>>, "get_cpu_name")
       \* psutil has no cpu_freq: None without a notice
       \/ Sampled("cpu_clock", [snap EXCEPT !.cpu_clock = None], TRUE, <<>>, "get_cpu_name")
       \/ Sampled("cpu_clock", [snap EXCEPT !.cpu_clock = None], TRUE, <<ErrCpuClock>>,
                  "get_cpu_name")

get_cpu_name ==
    /\ pc = "get_cpu_name"
    /\ \/ \E v \in Strings :
            Sampled("cpu_name", [snap EXCEPT !.cpu_name = v], FALSE, <<>>, "get_ram_usage")
       \/ Sampled("cpu_name", [snap EXCEPT !.cpu_name = None], TRUE, <<ErrCpuName>>,
                  "get_ram_usage")

get_ram_usage ==
    /\ pc = "get_ram_usage"
    /\ \/ \E total \in Readings \ {0}, used \in Readings \ {0}, percent \in Readings :
            Sampled("ram", [snap EXCEPT !.ram = <<total, used, percent>>], FALSE, <<>>,
                    "get_disk_usage")
       \/ Sampled("ram", [snap EXCEPT !.ram = <<None, None, None>>], TRUE, <<ErrRam>>,
                  "get_disk_usage")

\* variant: the network sampler is not called before the rendering
get_disk_usage_then_render ==
    /\ pc = "get_disk_usage"
    /\ \/ \E device \in Strings, total \in Readings \ {0}, used \in Readings,
             percent \in Readings :
            /\ used = 0 => percent = 0
            /\ Sampled("disk", [snap EXCEPT !.disk = <<device, total, used, percent>>],
                       FALSE, <<>>, "render")
       \/ Sampled("disk", [snap EXCEPT !.disk = <<None, None, None, None>>], TRUE,
                  <<ErrDisk>>, "render")

get_disk_usage ==
    /\ pc = "get_disk_usage"
    /\ \/ \E device \in Strings, total \in Readings \ {0}, used \in Readings,
             percent \in Readings :
            /\ used = 0 => percent = 0
            /\ Sampled("disk", [snap EXCEPT !.disk = <<device, total, used, percent>>],
                       FALSE, <<>>, "get_network_activity")
       \/ Sampled("disk", [snap EXCEPT !.disk = <<None, None, None, None>>], TRUE,
                  <<ErrDisk>>, "get_network_activity")

\* two readings of the cumulative counters; the rates are the differences
get_network_activity ==
    /\ pc = "get_network_activity"
    /\ \/ \E before \in Counters \X Counters, after \in Counters \X Counters :
            /\ after[1] >= before[1]
            /\ after[2] >= before[2]
            /\ Sampled("network",
                       [snap EXCEPT !.net = <<after[1] - before[1], after[2] - before[2]>>],
                       FALSE, <<>>, "render")
       \/ Sampled("network", [snap EXCEPT !.net = <<None, None>>], TRUE, <<ErrNetwork>>,
                  "render")

\* the condition under which display_system_info prints the value line of c
Shown(c) ==
    CASE c = "ip" -> Truthy(snap.ip_address)
      [] c = "cpu_name" -> Truthy(snap.cpu_name)
      [] c = "cpu_usage" -> snap.cpu_usage # None
      [] c = "cpu_clock" -> snap.cpu_clock # None
      [] c = "ram" -> snap.ram[1] # None /\ snap.ram[2] # None /\ snap.ram[3] # None
      [] c = "disk" -> /\ Truthy(snap.disk[1])
                       /\ Truthy(snap.disk[2])
                       /\ Truthy(snap.disk[3])
                       /\ Truthy(snap.disk[4])
      [] c = "network" -> snap.net[1] # None /\ snap.net[2] # None

ReportLine(c) == IF Shown(c) THEN ValueLine[c] ELSE FailureLine[c]

\* the seven if/else prints
render ==
    /\ pc = "render"
    /\ out' = out \o [i \in 1 .. Len(RenderOrder) |-> ReportLine(RenderOrder[i])]
    /\ pc' = "log_entry"
    /\ UNCHANGED <<prog, args, snap, usage, calls, failed, logfile, iter, sleeps, exc,
                   exit_code>>

\* the values the log entry formats with :.2f, which None does not support
Formatted2f == <<snap.ram[1], snap.ram[2], snap.ram[3],
                 snap.disk[2], snap.disk[3], snap.disk[4]>>

\* if args.log: timestamp and log_entry
log_entry ==
    /\ pc = "log_entry"
    /\ IF ~args.log
       THEN Return /\ out' = out
       ELSE IF \E i \in DOMAIN Formatted2f : Formatted2f[i] = None
            THEN Propagate("TypeError", out)
            ELSE pc' = "write" /\ UNCHANGED <<snap, out, exc, exit_code>>
    /\ UNCHANGED <<prog, args, usage, calls, failed, logfile, iter, sleeps>>

\* variant: the file is opened with "w"
TruncateAndWrite(file, entry) == <<entry>>

\* open(path, "a") and write
AppendToFile(file, entry) == Append(file, entry)

\* variant: the write is not guarded, an I/O error leaves display_system_info
write_unguarded ==
    /\ pc = "write"
    /\ \/ /\ logfile' = AppendToFile(logfile, [head |-> "timestamp", ts |-> iter])
          /\ out' = out
          /\ Return
       \/ /\ logfile' = logfile
          /\ Propagate("OSError", out)
    /\ UNCHANGED <<prog, args, usage, calls, failed, iter, sleeps>>

\* try: with open(args.log, "a") as f: f.write(log_entry) / except Exception
write ==
    /\ pc = "write"
    /\ \/ /\ logfile' = AppendToFile(logfile, [head |-> "timestamp", ts |-> iter])
          /\ out' = out
       \/ /\ logfile' = logfile
          /\ out' = Append(out, ErrWriteLog)
    /\ Return
    /\ UNCHANGED <<prog, args, usage, calls, failed, iter, sleeps>>

\* time.sleep(args.interval): a negative length raises ValueError
sleep ==
    /\ pc = "sleep"
    /\ IF args.interval < 0
       THEN Propagate("ValueError", out) /\ sleeps' = sleeps
       ELSE /\ sleeps' = sleeps + 1
            /\ pc' = IF args.log THEN "logged" ELSE "while"
            /\ UNCHANGED <<snap, out, exc, exit_code>>
    /\ UNCHANGED <<prog, args, usage, calls, failed, logfile, iter>>

\* if args.log: print(f"logged to {args.log}")
logged ==
    /\ pc = "logged"
    /\ out' = Append(out, LoggedTo)
    /\ pc' = "while"
    /\ UNCHANGED <<prog, args, snap, usage, calls, failed, logfile, iter, sleeps, exc,
                   exit_code>>

\* a KeyboardInterrupt is raised at the current position of the driver; no
\* sampler and no log write catches it (they catch Exception)
interrupt ==
    /\ prog = "clisysmtr"
    /\ pc \notin {"main", "Terminated"}
    /\ Propagate("KeyboardInterrupt", out)
    /\ UNCHANGED <<prog, args, usage, calls, failed, logfile, iter, sleeps>>

(* ================= sysmon.py ================= *)

\* an exception e reaches the handlers of monitor_system with the console at
\* o; the function returns and the script ends normally
MonPropagate(e, o) ==
    /\ exc' = e
    /\ usage' = UnsetUsage
    /\ pc' = "Terminated"
    /\ out' = Append(o, IF e = "KeyboardInterrupt" THEN MonStoppedByUser ELSE MonErrOccurred)
    /\ exit_code' = 0

\* the banner is printed and the try is entered
monitor_system ==
    /\ pc = "monitor_system"
    /\ pc' = "mon_while"
    /\ UNCHANGED <<prog, args, snap, usage, calls, failed, out, logfile, iter, sleeps, exc,
                   exit_code>>

\* while True: log_system_usage(log_file) is called, which calls get_system_usage
mon_while ==
    /\ pc = "mon_while"
    /\ iter < MaxIter
    /\ iter' = iter + 1
    /\ usage' = UnsetUsage
    /\ calls' = NoCalls
    /\ failed' = {}
    /\ out' = <<>>
    /\ pc' = "cpu_percent"
    /\ UNCHANGED <<prog, args, snap, logfile, sleeps, exc, exit_code>>

\* a query of get_system_usage for category c returned: the locals become u
GsuOk(c, u, nxt) ==
    /\ Called(c)
    /\ usage' = u
    /\ pc' = nxt
    /\ UNCHANGED <<prog, args, snap, failed, out, logfile, iter, sleeps, exc, exit_code>>

\* variant: only the fields of the failing category become None
GsuExceptPerCategory(c) ==
    /\ Called(c)
    /\ usage' = [f \in UsageFields |->
                    IF \/ c = "cpu_usage" /\ f = "cpu_usage"
                       \/ c = "ram" /\ f \in {"mem_usage", "ram_total", "ram_available"}
                       \/ c = "network" /\ f \in {"bytes_sent", "bytes_recv"}
                       \/ c = "disk" /\ f \in {"disk_total", "disk_used", "disk_free"}
                    THEN None
                    ELSE IF usage[f] = Unset THEN 0 ELSE usage[f]]
    /\ failed' = failed \cup {c}
    /\ out' = Append(out, ErrSystemUsage)
    /\ pc' = "lsu_check"
    /\ UNCHANGED <<prog, args, snap, logfile, iter, sleeps, exc, exit_code>>

\* a query of get_system_usage for category c raised: the one except clause
\* of the function returns nine None
GsuExcept(c) ==
    /\ Called(c)
    /\ usage' = NoneUsage
    /\ failed' = failed \cup {c}
    /\ out' = Append(out, ErrSystemUsage)
    /\ pc' = "lsu_check"
    /\ UNCHANGED <<prog, args, snap, logfile, iter, sleeps, exc, exit_code>>

gsu_cpu_percent ==
    /\ pc = "cpu_percent"
    /\ \/ \E v \in Readings :
            GsuOk("cpu_usage", [usage EXCEPT !.cpu_usage = v], "virtual_memory")
       \/ GsuExcept("cpu_usage")

gsu_virtual_memory ==
    /\ pc = "virtual_memory"
    /\ \/ \E percent \in Readings, total \in Readings \ {0}, available \in Readings :
            GsuOk("ram", [usage EXCEPT !.mem_usage = percent, !.ram_total = total,
                                       !.ram_available = available], "net_io_counters")
       \/ GsuExcept("ram")

gsu_net_io_counters ==
    /\ pc = "net_io_counters"
    /\ \/ \E before \in Counters \X Counters, after \in Counters \X Counters :
            /\ after[1] >= before[1]
            /\ after[2] >= before[2]
            /\ GsuOk("network", [usage EXCEPT !.bytes_sent = after[1] - before[1],
                                            !.bytes_recv = after[2] - before[2]],
                     "disk_usage")
       \/ GsuExcept("network")

gsu_disk_usage ==
    /\ pc = "disk_usage"
    /\ \/ \E total \in Readings \ {0}, used \in Readings, free \in Readings :
            GsuOk("disk", [usage EXCEPT !.disk_total = total, !.disk_used = used,
                                        !.disk_free = free], "lsu_check")
       \/ GsuExcept("disk")

\* the values log_system_usage formats with :.2f
MonFormatted2f == {usage.ram_total, usage.ram_available, usage.disk_total,
                   usage.disk_used, usage.disk_free}

\* if cpu_usage is not None: timestamp and log_entry / else: print
lsu_check ==
    /\ pc = "lsu_check"
    /\ IF usage.cpu_usage # None
       THEN IF None \in MonFormatted2f
            THEN MonPropagate("TypeError", out)
            ELSE pc' = "lsu_write" /\ UNCHANGED <<usage, out, exc, exit_code>>
       ELSE /\ out' = Append(out, UnableToRetrieve)
            /\ usage' = UnsetUsage
            /\ pc' = "mon_sleep"
            /\ UNCHANGED <<exc, exit_code>>
    /\ UNCHANGED <<prog, args, snap, calls, failed, logfile, iter, sleeps>>

\* try: open(log_file, "a"), write, print / except Exception: print
lsu_write ==
    /\ pc = "lsu_write"
    /\ \/ /\ logfile' = AppendToFile(logfile, [head |-> "rule", ts |-> iter])
          /\ out' = Append(out, ResourceLogged)
       \/ /\ logfile' = logfile
          /\ out' = Append(out, ErrCantWrite)
    /\ usage' = UnsetUsage
    /\ pc' = "mon_sleep"
    /\ UNCHANGED <<prog, args, snap, calls, failed, iter, sleeps, exc, exit_code>>

\* time.sleep(interval)
mon_sleep ==
    /\ pc = "mon_sleep"
    /\ IF args.interval < 0
       THEN MonPropagate("ValueError", out) /\ sleeps' = sleeps
       ELSE /\ sleeps' = sleeps + 1
            /\ pc' = "mon_while"
            /\ UNCHANGED <<usage, out, exc, exit_code>>
    /\ UNCHANGED <<prog, args, snap, calls, failed, logfile, iter>>

\* a KeyboardInterrupt is raised inside the try of monitor_system
mon_interrupt ==
    /\ prog = "sysmon"
    /\ pc \notin {"monitor_system", "Terminated"}
    /\ MonPropagate("KeyboardInterrupt", out)
    /\ UNCHANGED <<prog, args, snap, calls, failed, logfile, iter, sleeps>>

(* ================= specification ================= *)

Next ==
    \/ main
    \/ while_body
    \/ get_local_ip
    \/ get_cpu_usage
    \/ get_cpu_clock
    \/ get_cpu_name
    \/ get_ram_usage
    \/ get_disk_usage
    \/ get_network_activity
    \/ render
    \/ log_entry
    \/ write
    \/ sleep
    \/ logged
    \/ interrupt
    \/ monitor_system
    \/ mon_while
    \/ gsu_cpu_percent
    \/ gsu_virtual_memory
    \/ gsu_net_io_counters
    \/ gsu_disk_usage
    \/ lsu_check
    \/ lsu_write
    \/ mon_sleep
    \/ mon_interrupt

Spec == Init /\ [][Next]_vars

(* ================= properties ================= *)

Range(seq) == {seq[i] : i \in DOMAIN seq}

Last(seq) == seq[Len(seq)]

IsReportLine(l) == l \in Range(ValueLine) \cup Range(FailureLine)

\* the lines display_system_info has rendered in this iteration
ReportLines == SelectSeq(out, IsReportLine)

\* the log entries written in this iteration
MyEntries == SelectSeq(logfile, LAMBDA e : iter >= 1 /\ e.ts = iter)

Absent(c) == \A i \in DOMAIN Fields(c) : Fields(c)[i] = None

Populated(c) == \A i \in DOMAIN Fields(c) : Fields(c)[i] \notin {None, Unset}

UsageAbsent(c) == \A i \in DOMAIN UsageOf(c) : UsageOf(c)[i] = None

UsagePopulated(c) == \A i \in DOMAIN UsageOf(c) : UsageOf(c)[i] \notin {None, Unset}

\* display_system_info has called all its samplers and its frame is alive
SnapshotBuilt == prog = "clisysmtr" /\ pc \in {"render", "log_entry", "write"}

\* get_system_usage has returned to log_system_usage
UsageReturned == prog = "sysmon" /\ pc = "lsu_check"

WriteFailed == ErrWriteLog \in Range(out) \/ ErrCantWrite \in Range(out)

\* the call of display_system_info / log_system_usage of this iteration has
\* returned normally
IterationEnd ==
    /\ iter >= 1
    /\ \/ pc \in {"sleep", "logged", "while", "mon_sleep", "mon_while"}
       \/ pc = "Terminated" /\ args.no_loop /\ exc = NoExc

(* ---- C1 ---- *)

\* C1: a sampler that returned its absent marker never makes the driver end
\* through the unexpected-error path: with some category absent (and a valid
\* interval) a run ends only normally or by a user interrupt.
C1_AbsentNeverAborts ==
    \A c \in Categories :
        (prog = "clisysmtr" /\ c \in failed /\ args.interval >= 0 /\ pc = "Terminated")
            => exc \in {NoExc, "KeyboardInterrupt"}

(* ---- C2 ---- *)

C3_UnexpectedErrorExitsNonZero ==
    (pc = "Terminated" /\ exc \in {"TypeError", "ValueError"})
        => /\ exit_code \notin {0, None}
           /\ Last(out) \in {ErrUnexpected, Traceback, MonErrOccurred}

(* ---- C4 ---- *)

\* C4: a run that a user interrupt ended has printed the stopped-by-user
\* message and exits with code 0, in continuous and in one-shot mode.
C4_InterruptIsGraceful ==
    (pc = "Terminated" /\ exc = "KeyboardInterrupt")
        => /\ exit_code = 0
           /\ Last(out) \in {StoppedByUser, MonStoppedByUser}

(* ---- C5 ---- *)

\* C5: one-shot mode that no interrupt ended performs one Sampling->Reporting
\* cycle, never sleeps, and exits with code 0, whatever the samplers returned
\* and whether or not --log is set.
C5_OneShotExitsZero ==
    (prog = "clisysmtr" /\ args.no_loop /\ pc = "Terminated" /\ exc # "KeyboardInterrupt")
        => /\ exit_code = 0
           /\ iter = 1
           /\ sleeps = 0
           /\ Len(ReportLines) = Len(RenderOrder)

(* ---- C6 ---- *)

\* C6: a step of the write block in which the file does not change (the
\* append failed) and no interrupt arrives prints the write-error notice,
\* leaves no exception in flight and no exit code set, and returns to the
\* loop's sleep; from there the driver sleeps and goes on to the next
\* Sampling unless it is interrupted or the interval is invalid.
C6_WriteFailureDoesNotStopLoop ==
    [][ /\ (pc = "write" /\ logfile' = logfile /\ exc' # "KeyboardInterrupt")
            => /\ out' = Append(out, ErrWriteLog)
               /\ exc' = NoExc
               /\ IF args.no_loop
                  THEN pc' = "Terminated" /\ exit_code' = 0
                  ELSE pc' = "sleep" /\ exit_code' = None
        /\ (pc = "lsu_write" /\ logfile' = logfile /\ exc' # "KeyboardInterrupt")
            => /\ out' = Append(out, ErrCantWrite)
               /\ exc' = NoExc
               /\ pc' = "mon_sleep" /\ exit_code' = None
        /\ (pc = "sleep" /\ args.interval >= 0 /\ exc' # "KeyboardInterrupt")
            => sleeps' = sleeps + 1 /\ pc' \in {"logged", "while"} /\ exit_code' = None
        /\ (pc = "logged" /\ exc' # "KeyboardInterrupt") => pc' = "while"
        /\ (pc = "while" /\ exc' # "KeyboardInterrupt")
            => pc' = "get_local_ip" /\ iter' = iter + 1
        /\ (pc = "mon_sleep" /\ args.interval >= 0 /\ exc' # "KeyboardInterrupt")
            => sleeps' = sleeps + 1 /\ pc' = "mon_while" /\ exit_code' = None
        /\ (pc = "mon_while" /\ exc' # "KeyboardInterrupt")
            => pc' = "cpu_percent" /\ iter' = iter + 1
      ]_vars

\* the append of the first iteration failed and the second Sampling runs
C6_Witness ==
    /\ prog = "clisysmtr"
    /\ args.log
    /\ iter = 2
    /\ pc = "get_cpu_usage"
    /\ \A i \in DOMAIN logfile : logfile[i].ts # 1

(* ---- C7 ---- *)

\* C7: display_system_info prints one line per category in the fixed order,
\* and the line of a category is its failure line exactly when the category
\* is absent (a zero reading renders the value line).
C7_FailureLineIffAbsent ==
    (prog = "clisysmtr" /\ pc = "log_entry")
        => /\ Len(ReportLines) = Len(RenderOrder)
           /\ \A i \in DOMAIN RenderOrder :
                ReportLines[i] = IF Absent(RenderOrder[i])
                                 THEN FailureLine[RenderOrder[i]]
                                 ELSE ValueLine[RenderOrder[i]]

(* ---- C8 ---- *)

\* the state part of C8: entries are in iteration order, each with the
\* layout of its script, and the iteration that just ended left exactly one
\* entry if logging is on, its sampling did not fail in sysmon and its write
\* did not fail, and none otherwise
C8_OneEntryPerLoggedIteration ==
    /\ \A i \in DOMAIN logfile :
          /\ logfile[i].ts <= iter
          /\ i < Len(logfile) => logfile[i].ts < logfile[i + 1].ts
          /\ logfile[i].ts >= 1 =>
                logfile[i].head = IF prog = "clisysmtr" THEN "timestamp" ELSE "rule"
    /\ IterationEnd =>
          Len(MyEntries) = IF /\ args.log
                              /\ ~WriteFailed
                              /\ prog = "sysmon" => failed = {}
                           THEN 1
                           ELSE 0

\* the file only grows, by one entry at its end
C8_AppendOnly ==
    \/ logfile' = logfile
    \/ /\ Len(logfile') = Len(logfile) + 1
       /\ SubSeq(logfile', 1, Len(logfile)) = logfile

C10_SuccessMessageOnlyAfterAppend ==
    /\ LoggedTo \in Range(out) => MyEntries # <<>>
    /\ ResourceLogged \in Range(out) => MyEntries # <<>>
    /\ WriteFailed => LoggedTo \notin Range(out) /\ ResourceLogged \notin Range(out)

====
